---- MODULE Spec2Model ----
(***************************************************************************)
(* Model of the X11 focus tracker of i3-focus-last (src/src/x11):          *)
(*   - the X server as seen through one connection: the active-window      *)
(*     property, the modifier mask, the XKB event selection, the requests  *)
(*     it has not answered yet and the FIFO stream of events and replies;  *)
(*   - DisplayServer::main_loop with its event handlers and the Request    *)
(*     Completion Queue (rqueue.rs, send_request);                         *)
(*   - FocusTracker (track chains, switch) and the Modifier State Watcher  *)
(*     (watch_xkb_state, xkb_close_listener);                              *)
(*   - the task awaiting the Switch Signal.                                *)
(* The older i3 server (src/src/main.rs: focus_server, cmd_server) is a    *)
(* program of its own, modelled at the end with the variable i3.           *)
(* Tasks are cooperative: every action below is one poll of one task,      *)
(* from the await that resumed it to the next await.                       *)
(***************************************************************************)
EXTENDS Integers, Sequences, FiniteSets, TLC

\* ------------------------------------------------------------------ bounds
\* Number of track() calls (generations) explored.
MaxTrack == 3
\* Longest server-to-client stream left unread by the reactor.
MaxWire == 2
\* Longest queue of i3 window events focus_server has not handled yet.
MaxEvents == 2
\* Capacity of State.windows explored (BUFFER_SIZE is 64 in main.rs:21).
BUFFER_SIZE == 3

\* ------------------------------------------------------------- vocabulary
None == "none"
Windows == {"A", "B", "C"}
\* x::ModMask, reduced to one modifier bit: 0 is ModMask::empty().
NoMods == 0
ModMasks == {0, 1}
Root == "root"
NonRoot == "child"
NetActiveWindow == "_NET_ACTIVE_WINDOW"
SwitchCommand == "x11-alternate-focus/switch"
OtherAtom == "other"
Gens == 1..MaxTrack

VARIABLES
    activeWindow,   \* server: value of _NET_ACTIVE_WINDOW on the root window
    mods,           \* server: modifier mask of the core keyboard
    xkbSelected,    \* server: XKB StateNotify selected by this connection
    inflight,       \* requests written to the server and not processed yet
    wire,           \* events and replies sent by the server, not read yet
    loop,           \* main_loop: "running", or how it returned
    requests,       \* DisplayInner.requests (rqueue::Queue)
    ft,             \* FocusTrackerInner
    chain,          \* the track() tasks, by captured cookie
    watcher,        \* DisplayInner.xkb_state_watcher
    woken,          \* the Notified future of the switch task has fired
    activated,      \* the window the switch task asked to activate last
    i3,             \* main.rs: the i3 window manager and the State of the server
    obs             \* history kept for the properties, never read by an action

vars == <<activeWindow, mods, xkbSelected, inflight, wire, loop, requests,
          ft, chain, watcher, woken, activated, i3, obs>>

server == <<activeWindow, mods, xkbSelected>>

\* ---------------------------------------------------------------- helpers
IsEmpty(m) == m = NoMods

\* A track() task that has not been spawned / has returned.
\* An Option is a sequence of at most one element.
Nothing == <<>>
Some(x) == <<x>>
Get(o) == o[1]

NoChain == [pc |-> "none", rx |-> Nothing, mods |-> NoMods, unseen |-> FALSE]
DoneChain == [pc |-> "done", rx |-> Nothing, mods |-> NoMods, unseen |-> FALSE]

\* The tasks holding a watch::Receiver of the Modifier Watch.
Receivers(ch) == {g \in Gens : ch[g].pc = "watch"}

PropertyNotify(window, atom, state) ==
    [type |-> "PropertyNotify", window |-> window, atom |-> atom, state |-> state]
ClientMessage(window, atom) ==
    [type |-> "ClientMessage", window |-> window, atom |-> atom]
StateNotify(m) == [type |-> "StateNotify", mods |-> m]
Reply(id, ok, val) == [type |-> "Reply", id |-> id, ok |-> ok, val |-> val]

IsEvent(item) == item.type # "Reply"

\* Number of PropertyNotify events of the stream that will start tracking.
RECURSIVE TrackingEvents(_)
TrackingEvents(w) ==
    IF w = <<>> THEN 0
    ELSE (IF /\ Head(w).type = "PropertyNotify"
             /\ Head(w).window = Root
             /\ Head(w).atom = NetActiveWindow
             /\ Head(w).state = "NewValue" THEN 1 ELSE 0)
         + TrackingEvents(Tail(w))

\* What the properties remember of the run:
\*   prev        the window that was active before activeWindow (consecutive
\*               repeats removed), None when there was none;
\*   superseded  some track() call found an earlier task unfinished;
\*   owed        a switch message was handled while a wakeup was pending;
\*   merged      the last run of the switch task served such messages too;
\*   runs        switch() calls since the tracker last registered a window
\*               (counted 1, 2, 1, 2, ...), before: the pair before call 1;
\*   failed      the generation of the last task that ended on an error
\*               reply, 0 when there was none;
\*   ignored     the last turn of main_loop read an event that calls for
\*               nothing;
\*   held        (main.rs) the windows that held the focus for MIN_FOCUS or
\*               longer and were neither closed nor cut off by BUFFER_SIZE
\*               since.
NoObs == [prev |-> None, superseded |-> FALSE, owed |-> FALSE,
          merged |-> FALSE, runs |-> 0, before |-> <<None, None>>,
          failed |-> 0, ignored |-> FALSE, held |-> {}]

\* main.rs before focus_server has bootstrapped: no window has the focus, no
\* event is queued, State::default() and last_change = Instant::now().
\*   focused, open, events   the window manager: the focused container, the
\*                           containers that exist, the window events sent
\*                           and not handled yet;
\*   windows, focus_after_switch   State;
\*   elapsed                 last_change.elapsed(), in seconds up to MIN_FOCUS.
NoI3 == [focused |-> None, open |-> Windows, events |-> <<>>,
         windows |-> <<>>, focus_after_switch |-> FALSE, elapsed |-> 0]

\* ------------------------------------------------------------------- Init
Init ==
    /\ activeWindow = None
    /\ mods = NoMods
    /\ xkbSelected = FALSE
    /\ inflight = <<>>
    /\ wire = <<>>
    /\ loop = "running"
    /\ requests = <<>>
    /\ ft = [cookie |-> 0, current |-> None, current_accepted |-> FALSE,
             last |-> None]
    /\ chain = [g \in Gens |-> NoChain]
    /\ watcher = Nothing
    /\ woken = FALSE
    /\ activated = None
    /\ i3 = NoI3
    /\ obs = NoObs

\* ------------------------------------------------- focustracker.rs, switch
\* FocusTracker::track, lines 20-23: bump the generation and spawn the task
\* that captures it.  s is the client state a handler of main_loop works on:
\* [ft, chain, watcher, xkbSelected, woken].
Track(s) ==
    LET cookie == s.ft.cookie + 1 IN
    [s EXCEPT !.ft.cookie = cookie,
              !.chain[cookie] = [NoChain EXCEPT !.pc = "spawned"]]

\* switch() that copies last into current instead of swapping.
SwitchCopies(f) ==
    [ft |-> [f EXCEPT !.current = f.last], ret |-> f.last]

\* switch() that returns the window that was current.
SwitchReturnsOld(f) ==
    [ft |-> [f EXCEPT !.current = f.last, !.last = f.current],
     ret |-> f.current]

\* FocusTracker::switch: last.swap(current), then return current.
Switch(f) ==
    [ft |-> [f EXCEPT !.current = f.last, !.last = f.current],
     ret |-> f.last]

\* The cookie! macro left out.
CookieUnchecked(cookie, f) == TRUE

\* The cookie! macro: the task goes on only while its generation is current.
CookieOk(cookie, f) == cookie = f.cookie

\* request! that takes an error for a reply.
RequestOkIgnoresError(reply, cookie, f) == CookieOk(cookie, f)

\* The request! macro, lines 47-61: the task goes on with the reply of
\* send_request when it is Ok and the generation is still its own; it
\* returns on Err.
RequestOk(reply, cookie, f) == reply.ok /\ CookieOk(cookie, f)

\* Register that takes every observation for a new window.
RegisterNoReconfirm(active_window, initial_xkb_mods, f) ==
    LET promoted == IF f.current_accepted
                    THEN [f EXCEPT !.last = f.current] ELSE f
        registered == [promoted EXCEPT !.current = active_window]
    IN IF IsEmpty(initial_xkb_mods)
       THEN [ft |-> [registered EXCEPT !.current_accepted = TRUE],
             wait |-> FALSE]
       ELSE [ft |-> [registered EXCEPT !.current_accepted = FALSE],
             wait |-> TRUE]

\* Register without the promotion of current into last.
RegisterNoPromotion(active_window, initial_xkb_mods, f) ==
    IF f.current = active_window
    THEN [ft |-> [f EXCEPT !.current_accepted = TRUE], wait |-> FALSE]
    ELSE [ft |-> [f EXCEPT !.current = active_window,
                           !.current_accepted = IsEmpty(initial_xkb_mods)],
          wait |-> ~IsEmpty(initial_xkb_mods)]

\* track, lines 93-114, once active_window is known: what the tracker holds
\* afterwards, and whether the task goes on to wait for the modifiers.
Register(active_window, initial_xkb_mods, f) ==
    IF f.current = active_window
    THEN [ft |-> [f EXCEPT !.current_accepted = TRUE], wait |-> FALSE]
    ELSE LET promoted == IF f.current_accepted
                         THEN [f EXCEPT !.last = f.current] ELSE f
             registered == [promoted EXCEPT !.current = active_window]
         IN IF IsEmpty(initial_xkb_mods)
            THEN [ft |-> [registered EXCEPT !.current_accepted = TRUE],
                  wait |-> FALSE]
            ELSE [ft |-> [registered EXCEPT !.current_accepted = FALSE],
                  wait |-> TRUE]

\* The debounce loop without the cookie! of line 132.
DebounceUnchecked(cookie, m, f) ==
    IF IsEmpty(m) THEN "accept"
    ELSE (IF CookieOk(cookie, f) THEN "wait" ELSE "return")

\* track, lines 120-133, resumed by rx.changed() with the published mask m:
\* "accept", "return" (superseded) or "wait" (modifiers still held).
Debounce(cookie, m, f) ==
    IF IsEmpty(m)
    THEN (IF CookieOk(cookie, f) THEN "accept" ELSE "return")
    ELSE (IF CookieOk(cookie, f) THEN "wait" ELSE "return")

\* ------------------------------------------------------ mod.rs, the watcher
\* watch_xkb_state that creates a watch at every call.
WatchXkbStateAlwaysNew(w, selected) ==
    [watcher |-> Some([value |-> NoMods]), xkbSelected |-> TRUE]

\* watch_xkb_state: subscribe to the watch, creating it (and selecting the
\* XKB events) when there is none.  A new receiver has seen the value held.
WatchXkbState(w, selected) ==
    IF w # Nothing
    THEN [watcher |-> w, xkbSelected |-> selected]
    ELSE [watcher |-> Some([value |-> NoMods]), xkbSelected |-> TRUE]

\* handle_xkb_state: publish the mask; when there is no watch, or the send
\* fails for want of receivers, stop the XKB notifications.
HandleXkbState(s, e) ==
    IF s.watcher # Nothing /\ Receivers(s.chain) # {}
    THEN [s EXCEPT !.watcher = Some([value |-> e.mods]),
                   !.chain = [g \in Gens |->
                                IF s.chain[g].pc = "watch"
                                THEN [s.chain[g] EXCEPT !.unseen = TRUE]
                                ELSE s.chain[g]]]
    ELSE [s EXCEPT !.xkbSelected = FALSE]

\* handle_root_property
HandleRootProperty(s, e) ==
    IF e.state # "NewValue" THEN s
    ELSE IF e.atom = NetActiveWindow THEN Track(s)
    ELSE s

\* handle_client_message that wakes nobody.
HandleClientMessageDropped(s, e) == s

\* handle_client_message: Notify::notify_waiters wakes the task waiting in
\* notified() and stores no permit.
HandleClientMessage(s, e) ==
    IF e.atom = SwitchCommand THEN [s EXCEPT !.woken = TRUE] ELSE s

\* is_root that takes every window for a root.
IsRootAny(window) == TRUE

\* is_root: the window is one of DisplayInner::roots.
IsRoot(window) == window = Root

\* main_loop, lines 114-134: the dispatch of one event.
HandleEvent(s, e) ==
    CASE e.type = "PropertyNotify" /\ IsRoot(e.window) -> HandleRootProperty(s, e)
      [] e.type = "ClientMessage" ->
            IF IsRoot(e.window) THEN HandleClientMessage(s, e) ELSE s
      [] e.type = "StateNotify" -> HandleXkbState(s, e)
      [] OTHER -> s

\* main_loop, line 113: every queued event, in order.
RECURSIVE DrainEvents(_, _)
DrainEvents(s, w) ==
    IF w = <<>> THEN s
    ELSE IF IsEvent(Head(w)) THEN DrainEvents(HandleEvent(s, Head(w)), Tail(w))
    ELSE DrainEvents(s, Tail(w))

\* ------------------------------------------- rqueue.rs and send_request
\* An xcb cookie identifies one request: here the task and the request kind.
Cookie(g, kind) == <<g, kind>>

\* The closure send_request registers: the cookie and the oneshot sender of
\* the task that awaits the reply.
Handler(cookie, g) == [cookie |-> cookie, tx |-> g]

\* Connection::poll_for_reply(&cookie) over the replies read so far.
PollForReply(cookie, replies) ==
    IF \E r \in replies : r.id = cookie
    THEN Some(CHOOSE r \in replies : r.id = cookie)
    ELSE Nothing

\* The closure's result: true while the request is not finished.
Pending(h, replies) == PollForReply(h.cookie, replies) = Nothing

\* process_queue that re-adds nothing.
ProcessQueueDropsAll(q, replies) == <<>>

\* Queue::process_queue: the requests re-added after every closure ran.
ProcessQueue(q, replies) == SelectSeq(q, LAMBDA h : Pending(h, replies))

\* What the closures of the queue send to the oneshot receiver of task g.
Resolved(q, replies, g) ==
    LET hs == {i \in DOMAIN q : q[i].tx = g /\ ~Pending(q[i], replies)} IN
    IF hs = {} THEN Nothing
    ELSE PollForReply(q[CHOOSE i \in hs : TRUE].cookie, replies)

\* send_request up to the await: write the request, register the closure.
SendRequest(g, kind) ==
    /\ inflight' = Append(inflight, [cookie |-> Cookie(g, kind), kind |-> kind])
    /\ requests' = Append(requests, Handler(Cookie(g, kind), g))

\* ------------------------------------------------------------ the X server
\* The window manager moves the focus: the property changes and the root
\* window's listeners are notified.
FocusChange(w) ==
    /\ loop = "running"
    /\ Len(wire) < MaxWire
    /\ ft.cookie + TrackingEvents(wire) < MaxTrack
    /\ activeWindow' = w
    /\ wire' = Append(wire, PropertyNotify(Root, NetActiveWindow, "NewValue"))
    /\ UNCHANGED <<mods, xkbSelected, inflight, loop, requests, ft, chain,
                   watcher, woken, activated>>

\* A modifier key is pressed or released; the server tells the connection
\* only while it has the XKB state notifications selected.
ModChange(m) ==
    /\ loop = "running"
    /\ m # mods
    /\ xkbSelected => Len(wire) < MaxWire
    /\ mods' = m
    /\ wire' = IF xkbSelected THEN Append(wire, StateNotify(m)) ELSE wire
    /\ UNCHANGED <<activeWindow, xkbSelected, inflight, loop, requests, ft,
                   chain, watcher, woken, activated>>

\* Some process sends the switch message to the root window.
SwitchMessage ==
    /\ loop = "running"
    /\ Len(wire) < MaxWire
    /\ wire' = Append(wire, ClientMessage(Root, SwitchCommand))
    /\ UNCHANGED <<server, inflight, loop, requests, ft, chain, watcher,
                   woken, activated>>

\* The events the connection can receive besides the three main_loop acts on:
\* property changes and client messages of windows that are no roots, and on
\* a root window other properties, deletions and other messages.
OtherEvents ==
    {PropertyNotify(NonRoot, NetActiveWindow, "NewValue"),
     PropertyNotify(Root, OtherAtom, "NewValue"),
     PropertyNotify(Root, NetActiveWindow, "Delete"),
     ClientMessage(NonRoot, SwitchCommand),
     ClientMessage(Root, OtherAtom)}

\* The server sends one of them.
OtherEvent(e) ==
    /\ loop = "running"
    /\ Len(wire) < MaxWire
    /\ wire' = Append(wire, e)
    /\ UNCHANGED <<server, inflight, loop, requests, ft, chain, watcher,
                   woken, activated>>

\* The server answers the request at position i of those it has not answered,
\* with a reply or with an error.  An X server answers in the order of the
\* requests (i = 1).
ServerReply(i, ok) ==
    /\ loop = "running"
    /\ i \in DOMAIN inflight
    /\ LET req == inflight[i]
           val == IF req.kind = "GetState" THEN mods ELSE activeWindow
       IN wire' = Append(wire, Reply(req.cookie, ok, IF ok THEN val ELSE None))
    /\ inflight' = [j \in 1..(Len(inflight) - 1) |->
                      IF j < i THEN inflight[j] ELSE inflight[j + 1]]
    /\ UNCHANGED <<server, loop, requests, ft, chain, watcher, woken, activated>>

\* ---------------------------------------------------------------- main_loop
\* One turn of main_loop: every event read, then process_queue.
MainLoop ==
    /\ loop = "running"
    /\ wire # <<>>
    /\ LET s == DrainEvents([ft |-> ft, chain |-> chain, watcher |-> watcher,
                             xkbSelected |-> xkbSelected, woken |-> woken],
                            wire)
           replies == {wire[i] : i \in {j \in DOMAIN wire : ~IsEvent(wire[j])}}
       IN /\ ft' = s.ft
          /\ watcher' = s.watcher
          /\ xkbSelected' = s.xkbSelected
          /\ woken' = s.woken
          /\ requests' = ProcessQueue(requests, replies)
          /\ chain' = [g \in Gens |->
                         LET r == Resolved(requests, replies, g) IN
                         IF r = Nothing THEN s.chain[g]
                         ELSE [s.chain[g] EXCEPT !.rx = r]]
    /\ wire' = <<>>
    /\ UNCHANGED <<activeWindow, mods, inflight, loop, activated>>

\* main_loop ends: readable() fails ("ok": the while-let falls through to
\* Ok(())), or poll_for_event / flush fails ("err": returned by `?`).
ConnectionFail(how) ==
    /\ loop = "running"
    /\ loop' = how
    /\ UNCHANGED <<server, inflight, wire, requests, ft, chain, watcher,
                   woken, activated>>

\* ------------------------------------------------------- the track() tasks
\* First poll: the GetState request (lines 65-70).
TrackStart(g) ==
    /\ loop = "running"
    /\ chain[g].pc = "spawned"
    /\ SendRequest(g, "GetState")
    /\ chain' = [chain EXCEPT ![g].pc = "wait_state"]
    /\ UNCHANGED <<server, wire, loop, ft, watcher, woken, activated>>

\* Resumed with the GetState reply: request! (lines 47-61), then the
\* GetProperty request (lines 74-84).
TrackState(g) ==
    /\ loop = "running"
    /\ chain[g].pc = "wait_state"
    /\ chain[g].rx # Nothing
    /\ IF RequestOk(Get(chain[g].rx), g, ft)
       THEN /\ SendRequest(g, "GetProperty")
            /\ chain' = [chain EXCEPT ![g] = [pc |-> "wait_prop", rx |-> Nothing,
                                              mods |-> Get(chain[g].rx).val,
                                              unseen |-> FALSE]]
       ELSE /\ chain' = [chain EXCEPT ![g] = DoneChain]
            /\ UNCHANGED <<inflight, requests>>
    /\ UNCHANGED <<server, wire, loop, ft, watcher, woken, activated>>

\* Resumed with the GetProperty reply: lines 84-118.
TrackProperty(g) ==
    /\ loop = "running"
    /\ chain[g].pc = "wait_prop"
    /\ chain[g].rx # Nothing
    /\ IF RequestOk(Get(chain[g].rx), g, ft) /\ Get(chain[g].rx).val # None
       THEN LET r == Register(Get(chain[g].rx).val, chain[g].mods, ft)
                w == WatchXkbState(watcher, xkbSelected)
            IN /\ ft' = r.ft
               /\ IF r.wait
                  THEN /\ watcher' = w.watcher
                       /\ xkbSelected' = w.xkbSelected
                       /\ chain' = [chain EXCEPT ![g] =
                                      [DoneChain EXCEPT !.pc = "watch"]]
                  ELSE /\ chain' = [chain EXCEPT ![g] = DoneChain]
                       /\ UNCHANGED <<watcher, xkbSelected>>
       ELSE /\ chain' = [chain EXCEPT ![g] = DoneChain]
            /\ UNCHANGED <<ft, watcher, xkbSelected>>
    /\ UNCHANGED <<activeWindow, mods, inflight, wire, loop, requests, woken,
                   activated>>

\* Resumed by rx.changed(): lines 120-133.
TrackModifiers(g) ==
    /\ loop = "running"
    /\ chain[g].pc = "watch"
    /\ chain[g].unseen
    /\ LET d == Debounce(g, Get(watcher).value, ft) IN
       /\ ft' = IF d = "accept" THEN [ft EXCEPT !.current_accepted = TRUE] ELSE ft
       /\ chain' = [chain EXCEPT ![g] =
                      IF d = "wait" THEN [chain[g] EXCEPT !.unseen = FALSE]
                      ELSE DoneChain]
    /\ UNCHANGED <<server, inflight, wire, loop, requests, watcher, woken,
                   activated>>

\* The close listener without xkb_select_events(.., false).
CloseListenerKeepsEvents ==
    /\ loop = "running"
    /\ watcher # Nothing
    /\ Receivers(chain) = {}
    /\ watcher' = Nothing
    /\ UNCHANGED <<activeWindow, mods, xkbSelected, inflight, wire, loop,
                   requests, ft, chain, woken, activated>>

\* xkb_close_listener: tx.closed() completes once no receiver is left.
CloseListener ==
    /\ loop = "running"
    /\ watcher # Nothing
    /\ Receivers(chain) = {}
    /\ watcher' = Nothing
    /\ xkbSelected' = FALSE
    /\ UNCHANGED <<activeWindow, mods, inflight, wire, loop, requests, ft,
                   chain, woken, activated>>

\* The task awaiting switch_command().notified(): it takes the switch
\* target from the tracker and asks the window manager to activate it.
SwitchTask ==
    /\ loop = "running"
    /\ woken
    /\ LET r == Switch(ft) IN
       /\ ft' = r.ft
       /\ activated' = r.ret
    /\ woken' = FALSE
    /\ UNCHANGED <<server, inflight, wire, loop, requests, chain, watcher>>

\* ---------------------------------------------------------- specification
\* The program and its environment, with no history kept.
Next ==
    \/ (\E w \in Windows : FocusChange(w)) /\ UNCHANGED <<i3, obs>>
    \/ (\E m \in ModMasks : ModChange(m)) /\ UNCHANGED <<i3, obs>>
    \/ SwitchMessage /\ UNCHANGED <<i3, obs>>
    \/ (\E ok \in BOOLEAN : ServerReply(1, ok)) /\ UNCHANGED <<i3, obs>>
    \/ MainLoop /\ UNCHANGED <<i3, obs>>
    \/ (\E how \in {"ok", "err"} : ConnectionFail(how)) /\ UNCHANGED <<i3, obs>>
    \/ (\E g \in Gens : TrackStart(g)) /\ UNCHANGED <<i3, obs>>
    \/ (\E g \in Gens : TrackState(g)) /\ UNCHANGED <<i3, obs>>
    \/ (\E g \in Gens : TrackProperty(g)) /\ UNCHANGED <<i3, obs>>
    \/ (\E g \in Gens : TrackModifiers(g)) /\ UNCHANGED <<i3, obs>>
    \/ CloseListener /\ UNCHANGED <<i3, obs>>
    \/ SwitchTask /\ UNCHANGED <<i3, obs>>

Spec == Init /\ [][Next]_vars

\* ------------------------------------------------- what a step was, and rest
\* A turn of main_loop is the only step that empties the stream.
MainLoopStep == wire # <<>> /\ wire' = <<>>

\* A poll of the track() task g: its state changes and the stream is not read.
ChainStep(g) == chain'[g] # chain[g] /\ wire' = wire

\* A run of the switch task: the only step that consumes the wakeup.
SwitchStep == woken /\ ~woken' /\ wire' = wire

HasStateNotify(w) == \E i \in DOMAIN w : w[i].type = "StateNotify"
HasSwitchMessage(w) ==
    \E i \in DOMAIN w : /\ w[i].type = "ClientMessage"
                        /\ w[i].window = Root
                        /\ w[i].atom = SwitchCommand

\* The task g awaits the reply of a request it sent.
Awaiting(g) == chain[g].pc \in {"wait_state", "wait_prop"} /\ chain[g].rx = Nothing

\* The task g can be polled.
Runnable(g) ==
    \/ chain[g].pc = "spawned"
    \/ chain[g].pc \in {"wait_state", "wait_prop"} /\ chain[g].rx # Nothing
    \/ chain[g].pc = "watch" /\ chain[g].unseen

\* Everything sent has been read and every task has run as far as it can.
Idle ==
    /\ wire = <<>>
    /\ inflight = <<>>
    /\ \A g \in Gens : ~Runnable(g) /\ ~Awaiting(g)
    /\ ~woken
    /\ ~(watcher # Nothing /\ Receivers(chain) = {})

\* ------------------------------------------------------ the history kept
ObsFocus(w) ==
    /\ UNCHANGED i3
    /\ obs' = [obs EXCEPT !.prev = IF w # activeWindow THEN activeWindow ELSE @]

ObsMainLoop ==
    /\ UNCHANGED i3
    /\ obs' = [obs EXCEPT
              !.superseded = \/ @
                             \/ ft'.cookie > ft.cookie + 1
                             \/ /\ ft'.cookie > ft.cookie
                                /\ \E g \in Gens : chain[g].pc \notin {"none", "done"}]

ObsOwed == UNCHANGED i3 /\ obs' = [obs EXCEPT !.owed = @ \/ (woken /\ HasSwitchMessage(wire))]

ObsServed == UNCHANGED i3 /\ obs' = [obs EXCEPT !.owed = FALSE, !.merged = obs.owed]

ObsChain ==
    /\ UNCHANGED i3
    /\ obs' = IF <<ft'.current, ft'.last>> # <<ft.current, ft.last>>
           THEN [obs EXCEPT !.runs = 0, !.before = <<None, None>>]
           ELSE obs

ObsFailed ==
    /\ UNCHANGED i3
    /\ obs' = IF \E g \in Gens : /\ chain[g].rx # Nothing
                              /\ ~Get(chain[g].rx).ok
                              /\ chain'[g].rx = Nothing
           THEN [obs EXCEPT !.failed =
                   CHOOSE g \in Gens : /\ chain[g].rx # Nothing
                                       /\ ~Get(chain[g].rx).ok
                                       /\ chain'[g].rx = Nothing]
           ELSE obs

ObsIgnored ==
    /\ UNCHANGED i3
    /\ obs' = [obs EXCEPT !.ignored = \E i \in DOMAIN wire : wire[i] \in OtherEvents]

ObsSwitch ==
    /\ UNCHANGED i3
    /\ obs' = [obs EXCEPT
              !.runs = IF @ = 1 THEN 2 ELSE 1,
              !.before = IF obs.runs = 1 THEN @ ELSE <<ft.current, ft.last>>]

\* Focus changes only: the modifiers stay released, no request fails.
NextFocus ==
    \/ \E w \in Windows : FocusChange(w) /\ ObsFocus(w)
    \/ ServerReply(1, TRUE) /\ UNCHANGED <<i3, obs>>
    \/ MainLoop /\ ObsMainLoop
    \/ (\E g \in Gens : TrackStart(g)) /\ UNCHANGED <<i3, obs>>
    \/ (\E g \in Gens : TrackState(g)) /\ UNCHANGED <<i3, obs>>
    \/ (\E g \in Gens : TrackProperty(g)) /\ ObsChain

SpecFocus == Init /\ [][NextFocus]_vars

NextTrack ==
    \/ (\E w \in {"A", "B"} : FocusChange(w)) /\ UNCHANGED <<i3, obs>>
    \/ (\E m \in ModMasks : ModChange(m)) /\ UNCHANGED <<i3, obs>>
    \/ ServerReply(1, TRUE) /\ UNCHANGED <<i3, obs>>
    \/ MainLoop /\ UNCHANGED <<i3, obs>>
    \/ (\E g \in Gens : TrackStart(g)) /\ UNCHANGED <<i3, obs>>
    \/ (\E g \in Gens : TrackState(g)) /\ UNCHANGED <<i3, obs>>
    \/ (\E g \in Gens : TrackProperty(g)) /\ UNCHANGED <<i3, obs>>
    \/ (\E g \in Gens : TrackModifiers(g)) /\ UNCHANGED <<i3, obs>>
    \/ CloseListener /\ UNCHANGED <<i3, obs>>

SpecTrack == Init /\ [][NextTrack]_vars

Tracked(f) == <<f.current, f.last, f.current_accepted>>

\* ---------------------------------------------------------------------- C3
\* C3: every track() call strictly increases the generation (a step raises
\* it by the number of tasks it spawns, and nothing lowers it), and a task
\* whose captured generation is not the tracker's writes none of current,
\* last and current_accepted, wherever it is resumed.
C3_Generation ==
    [][ /\ ft'.cookie =
             ft.cookie + Cardinality({g \in Gens : /\ chain[g].pc = "none"
                                                   /\ chain'[g].pc # "none"})
        /\ \A g \in Gens :
             (ChainStep(g) /\ g # ft.cookie) => Tracked(ft') = Tracked(ft)
      ]_vars

\* Two superseded tasks are about to be resumed, one by the reply of its
\* GetProperty request and one by a publication of the watch.
C3_Witness ==
    \E g1, g2 \in Gens :
        /\ g1 < ft.cookie /\ g2 < ft.cookie
        /\ chain[g1].pc = "wait_prop" /\ chain[g1].rx # Nothing
        /\ chain[g2].pc = "watch" /\ chain[g2].unseen

\* ---------------------------------------------------------------------- C8
\* C8 as stated: once the watch has no subscriber, the XKB notifications are
\* disabled and the watch is destroyed, and handle_xkb_state attempts no
\* publication (no send on a watch without receivers) until a new
\* subscription.
C8_NoPublishAttempt ==
    [][ /\ (watcher' = Nothing => ~xkbSelected' /\ Receivers(chain') = {})
        /\ (MainLoopStep /\ HasStateNotify(wire) /\ Receivers(chain) = {})
             => watcher = Nothing
      ]_vars

\* C8 amended: the watch is destroyed only when it has no subscriber, and
\* from then on the XKB notifications are disabled until the next
\* subscription; a notification handled while there is no subscriber, the
\* watch still standing or not, reaches no task and leaves the notifications
\* disabled.
C8_ZeroSubscribers ==
    [][ /\ (watcher' = Nothing => ~xkbSelected' /\ Receivers(chain') = {})
        /\ (watcher # Nothing /\ watcher' = Nothing) => Receivers(chain) = {}
        /\ (MainLoopStep /\ HasStateNotify(wire) /\ Receivers(chain) = {})
             => /\ ~xkbSelected'
                /\ watcher' = watcher
                /\ \A g \in Gens : ~chain'[g].unseen
      ]_vars

\* The watch is gone and a notification sent before is still to be handled.
C8_Witness ==
    /\ watcher = Nothing /\ ~xkbSelected
    /\ HasStateNotify(wire)
    /\ \E g \in Gens : chain[g].pc = "done"

\* --------------------------------------------------------------------- C10
DebounceWait(g) == g \in Gens /\ chain[g].pc = "watch"

\* C10 as stated: current_accepted is false exactly when a debounce wait of
\* the tracker's generation is outstanding.
C10_Iff == ~ft.current_accepted <=> DebounceWait(ft.cookie)

\* C10 amended: while a debounce wait of the tracker's generation is
\* outstanding, current_accepted is false.
C10_WaitImpliesPending == DebounceWait(ft.cookie) => ~ft.current_accepted

\* A task of the current generation waits while an older one waits too and
\* has been woken.
C10_Witness ==
    /\ DebounceWait(ft.cookie)
    /\ \E g \in Gens : g < ft.cookie /\ chain[g].pc = "watch" /\ chain[g].unseen

\* Focus changes and switch messages; the modifiers stay released.
NextSwitch ==
    \/ \E w \in Windows : FocusChange(w) /\ UNCHANGED <<i3, obs>>
    \/ SwitchMessage /\ UNCHANGED <<i3, obs>>
    \/ ServerReply(1, TRUE) /\ UNCHANGED <<i3, obs>>
    \/ MainLoop /\ UNCHANGED <<i3, obs>>
    \/ (\E g \in Gens : TrackStart(g)) /\ UNCHANGED <<i3, obs>>
    \/ (\E g \in Gens : TrackState(g)) /\ UNCHANGED <<i3, obs>>
    \/ (\E g \in Gens : TrackProperty(g)) /\ ObsChain
    \/ SwitchTask /\ ObsSwitch

SpecSwitch == Init /\ [][NextSwitch]_vars

\* ---------------------------------------------------------------------- C4
\* C4: after two consecutive switch() calls, with no window registered by
\* the tracker in between, current and last are what they were before the
\* first call.
C4_SelfInverse == obs.runs = 2 => <<ft.current, ft.last>> = obs.before

\* Two calls in a row on a pair of two different windows.
C4_Witness ==
    /\ obs.runs = 2
    /\ ft.current \in Windows /\ ft.last \in Windows /\ ft.current # ft.last

\* ---------------------------------------------------------------------- C5
\* C5: switch() exchanges last and current in one step and returns what last
\* held before the call, none exactly when there was no prior window; the
\* generation and current_accepted are left alone.  After the focus order
\* A, B, C it turns (current = C, last = B) into (current = B, last = C) and
\* returns B.
C5_SwitchExchanges ==
    [][ SwitchStep =>
          /\ ft'.current = ft.last
          /\ ft'.last = ft.current
          /\ activated' = ft.last
          /\ (activated' = None <=> ft.last = None)
          /\ ft'.cookie = ft.cookie
          /\ ft'.current_accepted = ft.current_accepted
          /\ (ft.current = "C" /\ ft.last = "B")
               => (ft'.current = "B" /\ ft'.last = "C" /\ activated' = "B")
      ]_vars

\* The focus went A, B, C, every observation was processed, and a single
\* switch() returned B.
C5_Witness ==
    /\ ft.cookie = 3 /\ activeWindow = "C"
    /\ obs.runs = 1 /\ obs.before = <<"C", "B">>
    /\ ft.current = "B" /\ ft.last = "C" /\ activated = "B"

\* Switch messages between focus changes of two windows.
NextWake ==
    \/ \E w \in {"A", "B"} : FocusChange(w) /\ UNCHANGED <<i3, obs>>
    \/ SwitchMessage /\ UNCHANGED <<i3, obs>>
    \/ ServerReply(1, TRUE) /\ UNCHANGED <<i3, obs>>
    \/ MainLoop /\ ObsOwed
    \/ (\E g \in Gens : TrackStart(g)) /\ UNCHANGED <<i3, obs>>
    \/ (\E g \in Gens : TrackState(g)) /\ UNCHANGED <<i3, obs>>
    \/ (\E g \in Gens : TrackProperty(g)) /\ UNCHANGED <<i3, obs>>
    \/ SwitchTask /\ ObsServed

SpecWake == Init /\ [][NextWake]_vars

\* ---------------------------------------------------------------------- C9
\* C9 as stated: switch messages handled while a wakeup of the switch task
\* is still pending result in one further wakeup, so the task is woken again
\* once it has served the pending one.
C9_FurtherWakeup == [][ (SwitchStep /\ obs.owed) => woken' ]_vars

\* C9 amended: a switch message on a root window always leaves a wakeup
\* pending, a wakeup comes from such a message only, and the task serves all
\* the messages handled before it runs in one run: after it no wakeup is
\* pending, also when messages were handled while the wakeup was pending
\* (they get no wakeup of their own), and switch() runs only in that run.
C9_Coalesced ==
    [][ /\ (MainLoopStep /\ HasSwitchMessage(wire)) => woken'
        /\ (~woken /\ woken') => (MainLoopStep /\ HasSwitchMessage(wire))
        /\ (wire' = wire /\ activated' # activated) => (woken /\ ~woken')
        /\ (wire' = wire /\ <<ft'.current, ft'.last>> # <<ft.current, ft.last>>
              /\ chain' = chain) => (woken /\ ~woken')
        /\ (wire' = wire /\ chain' = chain /\ woken) => ~woken'
      ]_vars

\* The switch task has just served, in one run, a wakeup and the messages
\* handled while it was pending.
C9_Witness == obs.merged /\ ~woken /\ activated # None

\* Requests answered in any order, with replies and with errors, and the end
\* of main_loop.
NextReq ==
    \/ \E w \in {"A", "B"} : FocusChange(w) /\ UNCHANGED <<i3, obs>>
    \/ (\E i \in 1..MaxTrack, ok \in BOOLEAN : ServerReply(i, ok))
         /\ UNCHANGED <<i3, obs>>
    \/ MainLoop /\ UNCHANGED <<i3, obs>>
    \/ (\E how \in {"ok", "err"} : ConnectionFail(how)) /\ UNCHANGED <<i3, obs>>
    \/ (\E g \in Gens : TrackStart(g)) /\ UNCHANGED <<i3, obs>>
    \/ (\E g \in Gens : TrackState(g)) /\ ObsFailed
    \/ (\E g \in Gens : TrackProperty(g)) /\ ObsFailed

SpecReq == Init /\ [][NextReq]_vars

\* The request the task g is waiting for.
AwaitedCookie(g) ==
    Cookie(g, IF chain[g].pc = "wait_state" THEN "GetState" ELSE "GetProperty")

\* The positions of the queue that hold a closure of the task g.
Registered(q, g) == {i \in DOMAIN q : q[i].tx = g}

\* The replies of the stream.
RepliesOf(w) == {w[i] : i \in {j \in DOMAIN w : ~IsEvent(w[j])}}

\* ---------------------------------------------------------------------- C6
\* C6: a request is resolved once, by the reply with its own cookie: a task
\* waiting in send_request has one closure in the queue, a task not waiting
\* has none; process_queue hands every request whose reply has been read to
\* its task and removes it, keeps the others in their order, and a result
\* handed to a task is never replaced by another.
C6_ResolvedOnce ==
    [][ /\ \A g \in Gens :
             /\ Cardinality(Registered(requests', g))
                  = (IF chain'[g].pc \in {"wait_state", "wait_prop"}
                        /\ chain'[g].rx = Nothing THEN 1 ELSE 0)
             /\ (chain[g].rx = Nothing /\ chain'[g].rx # Nothing) =>
                  /\ MainLoopStep
                  /\ Awaiting(g)
                  /\ Get(chain'[g].rx) \in RepliesOf(wire)
                  /\ Get(chain'[g].rx).id = AwaitedCookie(g)
             /\ (chain[g].rx # Nothing /\ chain'[g].rx # chain[g].rx) =>
                  (ChainStep(g) /\ chain'[g].rx = Nothing)
        /\ MainLoopStep =>
             /\ requests' = SelectSeq(requests, LAMBDA h :
                                \A r \in RepliesOf(wire) : r.id # h.cookie)
             /\ \A i \in DOMAIN requests :
                  (\E r \in RepliesOf(wire) : r.id = requests[i].cookie) =>
                     /\ chain'[requests[i].tx].rx # Nothing
                     /\ Get(chain'[requests[i].tx].rx).id = requests[i].cookie
      ]_vars

\* A drain has resolved the request of a later task while the request an
\* earlier task registered before it is kept for the next one.
C6_Witness ==
    \E g1, g2 \in Gens :
        /\ g1 < g2
        /\ chain[g1].pc = "wait_state" /\ chain[g1].rx = Nothing
        /\ Registered(requests, g1) # {}
        /\ chain[g2].rx # Nothing
        /\ wire = <<>>

\* ---------------------------------------------------------------------- C7
\* C7: once main_loop has ended, no task is left waiting in send_request and
\* no request is left in the queue.
C7_ResolvedOnTermination ==
    loop # "running" => (requests = <<>> /\ \A g \in Gens : ~Awaiting(g))

\* The chord of C2: A takes the focus and is accepted with no modifier held;
\* a modifier is pressed; the focus moves to B, then to C; the modifier is
\* released.  The server and the tasks run at any pace in between.
ChordFocus(w) ==
    \/ w = "A" /\ activeWindow = None
    \/ w = "B" /\ activeWindow = "A" /\ mods # NoMods
    \/ w = "C" /\ activeWindow = "B"

ChordMods(m) ==
    \/ /\ m # NoMods
       /\ activeWindow = "A" /\ Idle
       /\ ft.current = "A" /\ ft.current_accepted
    \/ m = NoMods /\ activeWindow = "C"

NextChord ==
    \/ \E w \in Windows : ChordFocus(w) /\ FocusChange(w) /\ UNCHANGED <<i3, obs>>
    \/ \E m \in ModMasks : ChordMods(m) /\ ModChange(m) /\ UNCHANGED <<i3, obs>>
    \/ ServerReply(1, TRUE) /\ UNCHANGED <<i3, obs>>
    \/ MainLoop /\ UNCHANGED <<i3, obs>>
    \/ (\E g \in Gens : TrackStart(g)) /\ UNCHANGED <<i3, obs>>
    \/ (\E g \in Gens : TrackState(g)) /\ UNCHANGED <<i3, obs>>
    \/ (\E g \in Gens : TrackProperty(g)) /\ UNCHANGED <<i3, obs>>
    \/ (\E g \in Gens : TrackModifiers(g)) /\ UNCHANGED <<i3, obs>>
    \/ CloseListener /\ UNCHANGED <<i3, obs>>

SpecChord == Init /\ [][NextChord]_vars

\* ---------------------------------------------------------------------- C2
\* C2: after the chord, once the modifier is released and everything sent
\* has been processed, current is C (the window active when the modifiers
\* cleared), current_accepted is true and last is A.
C2_ChordedSwitch ==
    (Idle /\ activeWindow = "C" /\ mods = NoMods) =>
        (ft.current = "C" /\ ft.current_accepted /\ ft.last = "A")

\* The chord ended as C2 says.
C2_ChordCompleted ==
    /\ Idle /\ activeWindow = "C" /\ mods = NoMods
    /\ ft.current = "C" /\ ft.current_accepted /\ ft.last = "A"

\* Focus changes over two windows, modifier keys and switch messages.
NextHeld ==
    \/ (\E w \in {"A", "B"} : FocusChange(w)) /\ UNCHANGED <<i3, obs>>
    \/ (\E m \in ModMasks : ModChange(m)) /\ UNCHANGED <<i3, obs>>
    \/ SwitchMessage /\ UNCHANGED <<i3, obs>>
    \/ ServerReply(1, TRUE) /\ UNCHANGED <<i3, obs>>
    \/ MainLoop /\ UNCHANGED <<i3, obs>>
    \/ (\E g \in Gens : TrackStart(g)) /\ UNCHANGED <<i3, obs>>
    \/ (\E g \in Gens : TrackState(g)) /\ UNCHANGED <<i3, obs>>
    \/ (\E g \in Gens : TrackProperty(g)) /\ UNCHANGED <<i3, obs>>
    \/ (\E g \in Gens : TrackModifiers(g)) /\ UNCHANGED <<i3, obs>>
    \/ CloseListener /\ UNCHANGED <<i3, obs>>
    \/ SwitchTask /\ UNCHANGED <<i3, obs>>

SpecHeld == Init /\ [][NextHeld]_vars

\* --------------------------------------------------------------------- C11
\* C11: last is written only with the value of current, and only while
\* current_accepted is true: a window that was never accepted never becomes
\* last, whatever focus observations, publications and switch() calls occur.
C11_LastAccepted ==
    [][ ft'.last # ft.last => (ft'.last = ft.current /\ ft.current_accepted)
      ]_vars

\* --------------------------------------------------------------------- C12
\* A step in which the task g leaves watch_xkb_state() with a receiver.
Subscribes(g) == chain[g].pc # "watch" /\ chain'[g].pc = "watch"

\* C12: xkb_state_watcher holds at most one watch, and every outstanding
\* debounce wait holds a receiver of it: no receiver outlives the watch, a
\* subscription joins the registered watch and leaves it as it is, and a
\* watch is created (with the notifications selected) only when none is
\* registered; a registered watch is only ever published to or destroyed.
C12_OneWatch ==
    [][ /\ watcher' = Nothing => Receivers(chain') = {}
        /\ \A g \in Gens : Subscribes(g) =>
             IF watcher # Nothing
             THEN watcher' = watcher /\ xkbSelected' = xkbSelected
             ELSE watcher' = Some([value |-> NoMods]) /\ xkbSelected'
        /\ (watcher = Nothing /\ watcher' # Nothing) =>
             \E g \in Gens : Subscribes(g)
        /\ (watcher # Nothing /\ watcher' # watcher) =>
             \/ watcher' = Nothing /\ Receivers(chain) = {}
             \/ MainLoopStep /\ HasStateNotify(wire) /\ Receivers(chain) # {}
      ]_vars

\* Two debounce waits are outstanding on the one watch, which has published.
C12_Witness ==
    /\ watcher # Nothing /\ Get(watcher).value # NoMods
    /\ Cardinality(Receivers(chain)) >= 2

\* --------------------------------------------------------------------- C13
\* The task g is resumed with an error for the request it awaited.
ResumedWithError(g) ==
    /\ chain[g].rx # Nothing /\ ~Get(chain[g].rx).ok
    /\ chain'[g].rx = Nothing /\ wire' = wire

\* C13: an error reply ends the task that awaited it and nothing else: the
\* tracker, the other tasks, the request queue and the watcher are left as
\* they were and main_loop keeps running, both when the error is read and
\* when the task is resumed with it.
C13_ErrorNotFatal ==
    [][ /\ \A g \in Gens : ResumedWithError(g) =>
             /\ chain'[g].pc = "done" /\ chain'[g] = DoneChain
             /\ \A h \in Gens \ {g} : chain'[h] = chain[h]
             /\ ft' = ft
             /\ requests' = requests /\ inflight' = inflight
             /\ watcher' = watcher /\ xkbSelected' = xkbSelected
             /\ loop' = "running"
        /\ (MainLoopStep /\ \E r \in RepliesOf(wire) : ~r.ok) =>
             /\ loop' = "running"
             /\ Tracked(ft') = Tracked(ft)
      ]_vars

\* The first task ended on an error; the focus change after it was tracked.
C13_Witness ==
    /\ obs.failed = 1
    /\ ft.cookie = 2 /\ chain[2].pc = "done"
    /\ ft.current = activeWindow /\ ft.current \in Windows
    /\ ft.current_accepted
    /\ loop = "running"

\* --------------------------------------------------------------------- C14
\* C14: whenever main_loop has ended on a read failure of the connection, be
\* it reported by readable() or by poll_for_event(), it has returned an
\* error.
C14_FailureReturnsError == loop # "running" => loop = "err"

\* The scheduling of SpecTrack made fair: the server answers every request,
\* main_loop reads what the server sent, and a task that can be polled is
\* polled.  The window manager and the keyboard owe nothing.
FairTrack ==
    /\ WF_vars(ServerReply(1, TRUE) /\ UNCHANGED <<i3, obs>>)
    /\ WF_vars(MainLoop /\ UNCHANGED <<i3, obs>>)
    /\ WF_vars(CloseListener /\ UNCHANGED <<i3, obs>>)
    /\ \A g \in Gens :
         /\ WF_vars(TrackStart(g) /\ UNCHANGED <<i3, obs>>)
         /\ WF_vars(TrackState(g) /\ UNCHANGED <<i3, obs>>)
         /\ WF_vars(TrackProperty(g) /\ UNCHANGED <<i3, obs>>)
         /\ WF_vars(TrackModifiers(g) /\ UNCHANGED <<i3, obs>>)

SpecTrackFair == Init /\ [][NextTrack]_vars /\ FairTrack

\* --------------------------------------------------------------------- C15
\* C15: whenever the task of the current generation is in its debounce wait
\* and no modifier is held, then current_accepted becomes true, unless a
\* modifier is pressed again or a newer focus observation takes over.
C15_ReleaseAccepts ==
    \A g \in Gens :
        (ft.cookie = g /\ DebounceWait(g) /\ mods = NoMods)
            ~> (ft.current_accepted \/ mods # NoMods \/ ft.cookie # g)

\* --------------------------------------------------------------------- C16
\* The task g of the current generation is resumed with an active window
\* that is the tracker's current.
FindsCurrent(g) ==
    /\ chain[g].pc = "wait_prop" /\ chain[g].rx # Nothing
    /\ Get(chain[g].rx).ok /\ g = ft.cookie
    /\ Get(chain[g].rx).val = ft.current
    /\ chain'[g].rx = Nothing /\ wire' = wire

\* C16: a focus observation whose active window is current sets
\* current_accepted and ends: current, last and the generation stay, nothing
\* is promoted, the watch and the XKB selection are not touched and the task
\* holds no receiver, whatever the modifiers were.
C16_Reconfirmation ==
    [][ \A g \in Gens : FindsCurrent(g) =>
          /\ ft'.current_accepted
          /\ ft'.current = ft.current /\ ft'.last = ft.last
          /\ ft'.cookie = ft.cookie
          /\ watcher' = watcher /\ xkbSelected' = xkbSelected
          /\ chain' = [chain EXCEPT ![g] = DoneChain]
      ]_vars

\* B was accepted, A was registered over it with a modifier held and its
\* task still waits for the release; a further observation of A, made by
\* the third task, has accepted A.
C16_Witness ==
    /\ ft.cookie = 3 /\ chain[2].pc = "watch" /\ chain[3].pc = "done"
    /\ ft.current = "A" /\ ft.last = "B" /\ ft.current_accepted

\* The focus goes to A, then B, then C.
NoiseFocus(w) ==
    \/ w = "A" /\ activeWindow = None
    \/ w = "B" /\ activeWindow = "A"
    \/ w = "C" /\ activeWindow = "B"

\* These focus changes and switch messages among the events of other
\* windows, other properties and other messages.
NextNoise ==
    \/ (\E w \in Windows : NoiseFocus(w) /\ FocusChange(w)) /\ UNCHANGED <<i3, obs>>
    \/ SwitchMessage /\ UNCHANGED <<i3, obs>>
    \/ (\E e \in OtherEvents : OtherEvent(e)) /\ UNCHANGED <<i3, obs>>
    \/ ServerReply(1, TRUE) /\ UNCHANGED <<i3, obs>>
    \/ MainLoop /\ ObsIgnored
    \/ (\E g \in Gens : TrackStart(g)) /\ UNCHANGED <<i3, obs>>
    \/ (\E g \in Gens : TrackState(g)) /\ UNCHANGED <<i3, obs>>
    \/ (\E g \in Gens : TrackProperty(g)) /\ UNCHANGED <<i3, obs>>
    \/ SwitchTask /\ UNCHANGED <<i3, obs>>

SpecNoise == Init /\ [][NextNoise]_vars

\* --------------------------------------------------------------------- C17
\* C17: a turn of main_loop starts one tracking task per new-value change of
\* the active-window property of a root window and no other, wakes the
\* switch task exactly when it read a switch message of a root window, and
\* writes none of current, last and current_accepted; the events of other
\* windows, other properties, deletions and other messages change nothing.
C17_OnlyRootEvents ==
    [][ MainLoopStep =>
          /\ ft'.cookie = ft.cookie + TrackingEvents(wire)
          /\ Cardinality({g \in Gens : chain[g].pc = "none"
                                        /\ chain'[g].pc # "none"})
               = TrackingEvents(wire)
          /\ woken' = (woken \/ HasSwitchMessage(wire))
          /\ Tracked(ft') = Tracked(ft)
          /\ watcher' = watcher /\ xkbSelected' = xkbSelected
      ]_vars

\* With A and B tracked, the last turn of main_loop read events of a window
\* that is no root, or of no concern on a root: the generation is still the
\* number of focus changes, the pair is untouched and nobody was woken.
C17_Witness ==
    /\ obs.ignored /\ wire = <<>>
    /\ activeWindow = "B" /\ ft.cookie = 2
    /\ ft.current = "B" /\ ft.last = "A" /\ ft.current_accepted
    /\ ~woken /\ activated = None

\* --------------------------------------------------------------------- C18
\* C18: a switch() called when there is no prior window (last is none)
\* returns none and has no effect: current, last and current_accepted are
\* after the call what they were before it.
C18_SwitchNoTarget ==
    [][ (SwitchStep /\ ft.last = None) =>
          /\ activated' = None
          /\ Tracked(ft') = Tracked(ft)
      ]_vars

\* --------------------------------------------------------------------- C19
\* C19: in every reachable state, if at least one debounce wait holds a
\* subscription obtained from watch_xkb_state(), the modifier-change
\* notifications are enabled; no interleaving of handle_xkb_state, the close
\* listener and a new watch_xkb_state() call leaves a subscriber waiting on
\* a disabled stream.
C19_SubscriberHasEvents == Receivers(chain) # {} => xkbSelected

\* --------------------------------------------------------------------- C20
\* Focus changes and switch messages at any time; the modifier keys are
\* pressed and released while the program is idle.
NextPair ==
    \/ (\E w \in {"A", "B"} : FocusChange(w)) /\ UNCHANGED <<i3, obs>>
    \/ Idle /\ (\E m \in ModMasks : ModChange(m)) /\ UNCHANGED <<i3, obs>>
    \/ SwitchMessage /\ UNCHANGED <<i3, obs>>
    \/ ServerReply(1, TRUE) /\ UNCHANGED <<i3, obs>>
    \/ MainLoop /\ UNCHANGED <<i3, obs>>
    \/ (\E g \in Gens : TrackStart(g)) /\ UNCHANGED <<i3, obs>>
    \/ (\E g \in Gens : TrackState(g)) /\ UNCHANGED <<i3, obs>>
    \/ (\E g \in Gens : TrackProperty(g)) /\ UNCHANGED <<i3, obs>>
    \/ (\E g \in Gens : TrackModifiers(g)) /\ UNCHANGED <<i3, obs>>
    \/ CloseListener /\ UNCHANGED <<i3, obs>>
    \/ SwitchTask /\ UNCHANGED <<i3, obs>>

SpecPair == Init /\ [][NextPair]_vars

\* Both cells of the tracker f hold a window.
Pair(f) == f.current \in Windows /\ f.last \in Windows

\* C20: in every reachable state where both current and last hold a window,
\* current differs from last, so a switch() that returns a window returns
\* one different from the window that was current before the call.
C20_CurrentDiffersFromLast == Pair(ft) => ft.current # ft.last

\* C20, as the code has it: current and last come to hold the same window
\* only by a registration that finds current not accepted, which replaces
\* current and leaves last alone; a registration that promotes and a
\* switch() never make them equal, and a switch() returns the window that
\* was current only when the pair was equal before the call.
C20_EqualOnlyUnpromoted ==
    [][ /\ (Pair(ft') /\ ft'.current = ft'.last
              /\ ~(Pair(ft) /\ ft.current = ft.last))
           => /\ ~ft.current_accepted
              /\ ft'.last = ft.last
              /\ ft'.current # ft.current
              /\ ~SwitchStep
        /\ (SwitchStep /\ activated' \in Windows /\ activated' = ft.current)
           => ft.last = ft.current
      ]_vars

\* A was accepted, B was registered with a modifier held, the focus came
\* back to A: after the release both cells hold A, and switch() has
\* returned A while A was current.
C20_Witness ==
    /\ ft.current = "A" /\ ft.last = "A" /\ ft.current_accepted
    /\ mods = NoMods /\ activated = "A" /\ ~woken

\* ============================================================ src/main.rs
\* The older server for i3: focus_server keeps the windows in the order they
\* last took the focus (State.windows, newest first), cmd_server serves the
\* switch command from it.  The program of src/x11 is not running.
x11 == <<activeWindow, mods, xkbSelected, inflight, wire, loop, requests,
         ft, chain, watcher, woken, activated>>

\* MIN_FOCUS = Duration::from_secs(1): the clock of the model counts seconds.
MIN_FOCUS == 1

Range(w) == {w[i] : i \in DOMAIN w}

\* VecDeque: front(), pop_front(), push_front(), truncate(), retain().
Front(w) == IF w = <<>> THEN None ELSE Head(w)
PopFront(w) == IF w = <<>> THEN w ELSE Tail(w)
PushFront(w, id) == <<id>> \o w
Truncate(w, n) == IF Len(w) > n THEN SubSeq(w, 1, n) ELSE w
Retain(w, id) == SelectSeq(w, LAMBDA v : v # id)

\* A window event of i3: e.change and e.container.id.
WindowEvent(change, id) == [change |-> change, id |-> id]

\* main.rs:150-151: the front window is dropped when this Focus event does
\* not follow a switch command and comes less than MIN_FOCUS after the last.
LastIgnored(s) == ~s.focus_after_switch /\ s.elapsed < MIN_FOCUS

\* State.windows after lines 150-154.
Kept(s) == IF LastIgnored(s) THEN PopFront(s.windows) ELSE s.windows

\* focus_server, WindowChange::Focus (lines 145-163); mem::take clears
\* focus_after_switch, last_change = Instant::now() restarts the clock.
OnFocus(s, cid) ==
    [s EXCEPT !.windows = IF Front(Kept(s)) # cid
                          THEN Truncate(PushFront(Kept(s), cid), BUFFER_SIZE)
                          ELSE Kept(s),
              !.focus_after_switch = FALSE,
              !.elapsed = 0]

\* focus_server, WindowChange::Close (lines 165-171).
OnClose(s, cid) == [s EXCEPT !.windows = Retain(s.windows, cid)]

\* focus_nth (lines 35-54), k counted from 0 as in the source: the first
\* window from position k on that i3 can still focus, None when the command
\* fails for all of them.
RECURSIVE FocusNth(_, _, _)
FocusNth(windows, k, open) ==
    IF k + 1 > Len(windows) THEN None
    ELSE IF windows[k + 1] \in open THEN windows[k + 1]
    ELSE FocusNth(windows, k + 1, open)

\* The user or i3 gives the focus to another container.
I3Focus(w) ==
    /\ w \in i3.open /\ w # i3.focused
    /\ Len(i3.events) < MaxEvents
    /\ i3' = [i3 EXCEPT !.focused = w,
                        !.events = Append(@, WindowEvent("Focus", w))]
    /\ UNCHANGED x11

\* A container is closed; if it had the focus, no container has it until
\* i3 focuses another one.
I3Close(w) ==
    /\ w \in i3.open
    /\ Len(i3.events) < MaxEvents
    /\ i3' = [i3 EXCEPT !.open = @ \ {w},
                        !.focused = IF @ = w THEN None ELSE @,
                        !.events = Append(@, WindowEvent("Close", w))]
    /\ UNCHANGED x11

\* Any other window event (title, move, urgent, ...).
I3Other(w) ==
    /\ w \in i3.open
    /\ Len(i3.events) < MaxEvents
    /\ i3' = [i3 EXCEPT !.events = Append(@, WindowEvent("Title", w))]
    /\ UNCHANGED x11

\* One second passes; focus_server is blocked in listen(), every event sent
\* so far has been handled.
Tick ==
    /\ i3.events = <<>>
    /\ i3.elapsed < MIN_FOCUS
    /\ i3' = [i3 EXCEPT !.elapsed = @ + 1]
    /\ UNCHANGED x11

\* focus_server, one turn of the loop over listener.listen() (lines 142-176).
FocusServer ==
    /\ i3.events # <<>>
    /\ LET e == Head(i3.events)
           s == [i3 EXCEPT !.events = Tail(@)]
       IN i3' = CASE e.change = "Focus" -> OnFocus(s, e.id)
                  [] e.change = "Close" -> OnClose(s, e.id)
                  [] OTHER -> s
    /\ UNCHANGED x11

\* cmd_server, the switch command (lines 90-94): under the lock, set
\* focus_after_switch and focus the second window of the history, or the
\* next one i3 can focus; i3 reports the change of focus with an event.
SwitchCmd ==
    LET target == FocusNth(i3.windows, 1, i3.open)
        moved == target # None /\ target # i3.focused
    IN /\ moved => Len(i3.events) < MaxEvents
       /\ i3' = [i3 EXCEPT !.focus_after_switch = TRUE,
                           !.focused = IF moved THEN target ELSE @,
                           !.events = IF moved
                                      THEN Append(@, WindowEvent("Focus", target))
                                      ELSE @]
       /\ UNCHANGED x11

\* The history: a window enters held when it has had the focus for MIN_FOCUS,
\* and leaves it when it is closed or when truncate() cuts its last entry
\* off the history.
ObsTick ==
    obs' = [obs EXCEPT !.held = IF i3'.elapsed >= MIN_FOCUS /\ i3.focused # None
                                THEN @ \cup {i3.focused} ELSE @]

ObsClosed(w) == obs' = [obs EXCEPT !.held = @ \ {w}]

ObsHandled ==
    obs' = IF Head(i3.events).change = "Focus"
           THEN [obs EXCEPT !.held =
                   @ \ (Range(PushFront(Kept(i3), Head(i3.events).id))
                          \ Range(i3'.windows))]
           ELSE obs

\* focus_server after its bootstrap (lines 126-140): the history holds the
\* focused window, or nothing when get_focused_window() failed.
InitI3 ==
    /\ activeWindow = None
    /\ mods = NoMods
    /\ xkbSelected = FALSE
    /\ inflight = <<>>
    /\ wire = <<>>
    /\ loop = "running"
    /\ requests = <<>>
    /\ ft = [cookie |-> 0, current |-> None, current_accepted |-> FALSE,
             last |-> None]
    /\ chain = [g \in Gens |-> NoChain]
    /\ watcher = Nothing
    /\ woken = FALSE
    /\ activated = None
    /\ \E w \in Windows \cup {None} :
          i3 = [NoI3 EXCEPT !.focused = w,
                            !.windows = IF w = None THEN <<>> ELSE <<w>>]
    /\ obs = NoObs

NextI3 ==
    \/ (\E w \in Windows : I3Focus(w)) /\ UNCHANGED obs
    \/ \E w \in Windows : I3Close(w) /\ ObsClosed(w)
    \/ (\E w \in Windows : I3Other(w)) /\ UNCHANGED obs
    \/ Tick /\ ObsTick
    \/ FocusServer /\ ObsHandled
    \/ SwitchCmd /\ UNCHANGED obs

SpecI3 == InitI3 /\ [][NextI3]_vars

\* --------------------------------------------------------------------- C21
\* C21: in the i3 focus history (State.windows) the minimum-focus rule
\* removes only a window that held the focus for less than MIN_FOCUS: after
\* any sequence of Focus events, Close events and switch commands, a window
\* that held the focus for at least MIN_FOCUS stays in the history until it
\* is closed or pushed out by the BUFFER_SIZE limit.
C21_MinFocusKeeps == \A w \in obs.held : w \in Range(i3.windows)

====
